---- MODULE Spec2Model ----
(***************************************************************************)
(* PhotoVault: the row-level-security policies of the migration            *)
(* (profiles, photos, storage.objects of bucket "photos"), the             *)
(* handle_new_user trigger, and the Gallery client (fetchPhotos,           *)
(* uploadFile, handleFileChange / handleDrop, deletePhoto) that calls the  *)
(* data layer under the identity of its session.                           *)
(***************************************************************************)
EXTENDS Integers, Sequences, FiniteSets, TLC

\* ------------------------------------------------------------------ bounds
MaxTime == 1      \* the database clock now() stops advancing here
MaxPhotoId == 3   \* photos rows ever inserted (ids drawn by gen_random_uuid)
MaxUploads == 2   \* uploadFile calls that pass validation, over the life of a Gallery
MaxDeletes == 1   \* deletePhoto calls, over the life of a Gallery
MaxGalleryUploads == 1  \* uploads in the runs that also delete
MaxStamp == 2     \* values Date.now() takes
MaxPick == 2      \* files of one selection or drop

\* ------------------------------------------------------------ value spaces
UserIds == {1, 2}
Emails == {"a@x", "b@x"}
Stamps == 1..MaxStamp
NoUser == ""

\* auth.uid()::text, and session.user.id as the client holds it
UidText(u) == IF u = 1 THEN "u1" ELSE "u2"

\* the uuid a text identifier denotes (user_id: userId sent to a UUID column)
ParseUid(t) == CHOOSE u \in UserIds : UidText(u) = t

\* storage.foldername(name): every segment of the object name but the last
foldername(name) == SubSeq(name, 1, Len(name) - 1)

\* (storage.foldername(name))[1], NULL (here NoUser) when there is no folder
FirstFolder(name) == IF Len(foldername(name)) >= 1 THEN foldername(name)[1] ELSE NoUser

\* --------------------------------------------------------------- policies
\* "Users can view own profile"
ProfilesSelectUsing(uid, row) == uid = row.user_id
\* "Users can insert own profile"
ProfilesInsertCheck(uid, row) == uid = row.user_id
\* "Users can update own profile" (USING; it is also the WITH CHECK of the new row)
ProfilesUpdateUsing(uid, row) == uid = row.user_id
\* profiles has no DELETE policy: row-level security denies every row
ProfilesDeleteUsing(uid, row) == FALSE

\* The select policy of photos without its predicate
PhotosSelectUsing_AnyRow(uid, row) == TRUE
\* "Users can view own photos" (public.photos)
PhotosSelectUsing(uid, row) == uid = row.user_id
\* "Users can insert own photos"
PhotosInsertCheck(uid, row) == uid = row.user_id
\* "Users can delete own photos"
PhotosDeleteUsing(uid, row) == uid = row.user_id
\* photos has no UPDATE policy: row-level security denies every row
PhotosUpdateUsing(uid, row) == FALSE

\* The upload policy checking the bucket only
ObjectsInsertCheck_BucketOnly(uid, name) == TRUE
\* "Users can upload own photos" (storage.objects)
ObjectsInsertCheck(uid, name) == UidText(uid) = FirstFolder(name)
\* "Users can delete own photos" (storage.objects)
ObjectsDeleteUsing(uid, name) == UidText(uid) = FirstFolder(name)
\* "Users can view own photos" OR "Public can view photos"
ObjectsSelectUsing(uid, name) == UidText(uid) = FirstFolder(name) \/ TRUE

\* ------------------------------------------------------------------ state
VARIABLES
  auth_users,       \* auth.users: id -> email of the users that exist
  created,          \* identifiers ever issued (a uuid is never issued twice)
  public_profiles,  \* public.profiles, a sequence of rows [user_id, email]
  public_photos,    \* public.photos, a set of rows
  storage_objects,  \* names of the objects of bucket "photos"
  now,              \* the database clock
  nextId,           \* next photos.id
  userId,           \* Gallery state: userId (NoUser is null)
  photos,           \* Gallery state: photos, the cached list
  uploading,        \* Gallery state: uploading
  toast,            \* the last notification shown
  tasks             \* the requests the Gallery has started, in start order

dbVars == <<auth_users, created, public_profiles, public_photos, storage_objects, now, nextId>>
clientVars == <<userId, photos, uploading, toast, tasks>>
vars == <<auth_users, created, public_profiles, public_photos, storage_objects, now, nextId,
          userId, photos, uploading, toast, tasks>>

\* ------------------------------------------------------- tables as values
ProfilesOf(u) == SelectSeq(public_profiles, LAMBDA r : r.user_id = u)

\* SELECT * FROM profiles under identity uid
ProfilesSelect(uid) == SelectSeq(public_profiles, LAMBDA r : ProfilesSelectUsing(uid, r))

\* SELECT * FROM photos under identity uid (the rows, before ORDER BY)
PhotosSelect(uid) == {r \in public_photos : PhotosSelectUsing(uid, r)}

\* Objects of the bucket readable under identity uid (public bucket)
ObjectsSelect(uid) == {n \in storage_objects : ObjectsSelectUsing(uid, n)}

\* The trigger function storing a profile without the email
handle_new_user_NoEmail(newId, newEmail) ==
  Append(public_profiles, [user_id |-> newId, email |-> "a@x"])
\* handle_new_user(): INSERT INTO public.profiles (user_id, email) VALUES (NEW.id, NEW.email)
handle_new_user(newId, newEmail) ==
  Append(public_profiles, [user_id |-> newId, email |-> newEmail])

\* ON DELETE CASCADE of profiles.user_id and photos.user_id
CascadeProfiles(u) == SelectSeq(public_profiles, LAMBDA r : r.user_id # u)
CascadePhotos(u) == {r \in public_photos : r.user_id # u}

\* user_id UUID ... UNIQUE over a candidate content of profiles
ProfilesUnique(rows) ==
  \A i, j \in 1..Len(rows) : rows[i].user_id = rows[j].user_id => i = j

\* REFERENCES auth.users(id)
UserExists(u) == u \in DOMAIN auth_users

\* time passes at the database: now() grows
Tick ==
  /\ now < MaxTime
  /\ now' = now + 1
  /\ UNCHANGED <<auth_users, created, public_profiles, public_photos, storage_objects, nextId>>
  /\ UNCHANGED clientVars

\* ------------------------------------------------- identity provisioning
\* INSERT INTO auth.users fires on_auth_user_created in the same transaction
CreateUser(u, email) ==
  /\ u \notin created
  /\ ProfilesUnique(handle_new_user(u, email))
  /\ auth_users' = [x \in DOMAIN auth_users \cup {u} |->
                      IF x = u THEN email ELSE auth_users[x]]
  /\ created' = created \cup {u}
  /\ public_profiles' = handle_new_user(u, email)
  /\ UNCHANGED <<public_photos, storage_objects, now, nextId>>
  /\ UNCHANGED clientVars

\* DELETE FROM auth.users cascades to profiles and photos; objects are untouched
DeleteUser(u) ==
  /\ UserExists(u)
  /\ auth_users' = [x \in DOMAIN auth_users \ {u} |-> auth_users[x]]
  /\ public_profiles' = CascadeProfiles(u)
  /\ public_photos' = CascadePhotos(u)
  /\ UNCHANGED <<created, storage_objects, now, nextId>>
  /\ UNCHANGED clientVars

\* ------------------------------------------- direct data-layer statements
\* object names and rows a caller that bypasses the client sends
DirectNames == {<<UidText(u), "1.png">> : u \in UserIds} \cup {<<"1.png">>}
DirectPaths == {<<UidText(u), "1.png">> : u \in UserIds}
DirectFileName == <<"x", "png">>

\* INSERT INTO profiles (user_id, email) under identity uid
ProfilesInsert(uid, u, email) ==
  LET row == [user_id |-> u, email |-> email]
      ok == /\ ProfilesInsertCheck(uid, row)
            /\ UserExists(u)
            /\ ProfilesUnique(Append(public_profiles, row))
  IN /\ public_profiles' = IF ok THEN Append(public_profiles, row) ELSE public_profiles
     /\ UNCHANGED <<auth_users, created, public_photos, storage_objects, now, nextId>>
     /\ UNCHANGED clientVars

\* UPDATE profiles SET user_id = u, email = email WHERE user_id = target, under uid
ProfilesUpdate(uid, target, u, email) ==
  LET hit(r) == r.user_id = target /\ ProfilesSelectUsing(uid, r) /\ ProfilesUpdateUsing(uid, r)
      new == [user_id |-> u, email |-> email]
      rows == [i \in 1..Len(public_profiles) |->
                 IF hit(public_profiles[i]) THEN new ELSE public_profiles[i]]
      n == Len(SelectSeq(public_profiles, hit))
      ok == n = 0 \/ (/\ ProfilesUpdateUsing(uid, new)
                      /\ UserExists(u)
                      /\ ProfilesUnique(rows))
  IN /\ public_profiles' = IF ok THEN rows ELSE public_profiles
     /\ UNCHANGED <<auth_users, created, public_photos, storage_objects, now, nextId>>
     /\ UNCHANGED clientVars

\* DELETE FROM profiles WHERE user_id = target, under uid
ProfilesDelete(uid, target) ==
  LET hit(r) == r.user_id = target /\ ProfilesSelectUsing(uid, r) /\ ProfilesDeleteUsing(uid, r)
  IN /\ public_profiles' = SelectSeq(public_profiles, LAMBDA r : ~hit(r))
     /\ UNCHANGED <<auth_users, created, public_photos, storage_objects, now, nextId>>
     /\ UNCHANGED clientVars

\* The row INSERT INTO photos stores: id and created_at take their defaults
PhotoRow(id, u, fileName, filePath, fileSize, t) ==
  [id |-> id, user_id |-> u, file_name |-> fileName, file_path |-> filePath,
   file_size |-> fileSize, created_at |-> t]

\* WITH CHECK of the insert policy, then the foreign key
PhotosInsertResult(uid, row) ==
  IF ~PhotosInsertCheck(uid, row) THEN "denied"
  ELSE IF ~UserExists(row.user_id) THEN "fk"
  ELSE "ok"
PhotosInsertOk(uid, row) == PhotosInsertResult(uid, row) = "ok"

\* INSERT INTO photos (user_id, file_name, file_path) under identity uid
PhotosInsert(uid, u, filePath) ==
  /\ nextId <= MaxPhotoId
  /\ LET row == PhotoRow(nextId, u, DirectFileName, filePath, 0, now)
         ok == PhotosInsertOk(uid, row)
     IN /\ public_photos' = IF ok THEN public_photos \cup {row} ELSE public_photos
        /\ nextId' = IF ok THEN nextId + 1 ELSE nextId
  /\ UNCHANGED <<auth_users, created, public_profiles, storage_objects, now>>
  /\ UNCHANGED clientVars

\* The rows DELETE FROM photos WHERE id = id removes under identity uid
PhotosDeleted(uid, id) ==
  {r \in public_photos : r.id = id /\ PhotosSelectUsing(uid, r) /\ PhotosDeleteUsing(uid, r)}

\* DELETE FROM photos WHERE id = id, under uid
PhotosDelete(uid, id) ==
  /\ public_photos' = public_photos \ PhotosDeleted(uid, id)
  /\ UNCHANGED <<auth_users, created, public_profiles, storage_objects, now, nextId>>
  /\ UNCHANGED clientVars

\* UPDATE photos SET user_id = u, file_path = filePath WHERE id = id, under uid
PhotosUpdate(uid, id, u, filePath) ==
  LET hit(r) == r.id = id /\ PhotosSelectUsing(uid, r) /\ PhotosUpdateUsing(uid, r)
      upd(r) == [r EXCEPT !.user_id = u, !.file_path = filePath]
      hits == {r \in public_photos : hit(r)}
      ok == hits = {} \/ (PhotosUpdateUsing(uid, PhotoRow(id, u, DirectFileName, filePath, 0, now))
                          /\ UserExists(u))
  IN /\ public_photos' = IF ok THEN (public_photos \ hits) \cup {upd(r) : r \in hits}
                               ELSE public_photos
     /\ UNCHANGED <<auth_users, created, public_profiles, storage_objects, now, nextId>>
     /\ UNCHANGED clientVars

\* storage upload without upsert: the INSERT policy, then the unique object name
ObjectsInsertResult(uid, name) ==
  IF ~ObjectsInsertCheck(uid, name) THEN "denied"
  ELSE IF name \in storage_objects THEN "exists"
  ELSE "ok"
ObjectsInsertOk(uid, name) == ObjectsInsertResult(uid, name) = "ok"

\* storage remove: the DELETE policy filters the rows, silently
ObjectsDeleted(uid, names) ==
  {n \in storage_objects : n \in names /\ ObjectsSelectUsing(uid, n) /\ ObjectsDeleteUsing(uid, n)}

\* supabase.storage.from("photos").upload(name, ...) under uid
ObjectsUpload(uid, name) ==
  /\ storage_objects' = IF ObjectsInsertOk(uid, name) THEN storage_objects \cup {name}
                        ELSE storage_objects
  /\ UNCHANGED <<auth_users, created, public_profiles, public_photos, now, nextId>>
  /\ UNCHANGED clientVars

\* supabase.storage.from("photos").remove([name]) under uid
ObjectsRemove(uid, name) ==
  /\ storage_objects' = storage_objects \ ObjectsDeleted(uid, {name})
  /\ UNCHANGED <<auth_users, created, public_profiles, public_photos, now, nextId>>
  /\ UNCHANGED clientVars

\* Any statement a caller holding the token of uid sends straight to the data layer
DirectCall(uid) ==
  \/ \E u \in UserIds, e \in Emails : ProfilesInsert(uid, u, e)
  \/ \E target \in UserIds, u \in UserIds, e \in Emails : ProfilesUpdate(uid, target, u, e)
  \/ \E target \in UserIds : ProfilesDelete(uid, target)
  \/ \E u \in UserIds, n \in DirectPaths : PhotosInsert(uid, u, n)
  \/ \E id \in 1..MaxPhotoId : PhotosDelete(uid, id)
  \/ \E id \in 1..MaxPhotoId, u \in UserIds, n \in DirectPaths : PhotosUpdate(uid, id, u, n)
  \/ \E n \in DirectNames : ObjectsUpload(uid, n)
  \/ \E n \in DirectNames : ObjectsRemove(uid, n)

\* ---------------------------------------------------------------- Gallery
\* file.type as its tokens, "/" being a token of its own
ImagePrefix == <<"image", "/">>
\* String.prototype.startsWith
startsWith(str, prefix) ==
  Len(str) >= Len(prefix) /\ SubSeq(str, 1, Len(prefix)) = prefix

\* 10 * 1024 * 1024
MaxFileSize == 10 * 1024 * 1024

\* The files a user picks: name split at ".", declared type, size in bytes
Files ==
  { [name |-> <<"b", "png">>, type |-> <<"image", "/", "png">>, size |-> MaxFileSize],
    [name |-> <<"c", "png">>, type |-> <<"image", "/", "png">>, size |-> MaxFileSize + 1],
    [name |-> <<"d", "png">>, type |-> <<"text", "/", "plain">>, size |-> 1024] }

\* file.name.split(".").pop()
FileExt(name) == name[Len(name)]

\* `${Date.now()}.${fileExt}`
FileName(stamp, name) == ToString(stamp) \o "." \o FileExt(name)

\* `${userId}/${fileName}`, the segments between the "/"
FilePath(uid, stamp, name) == <<uid, FileName(stamp, name)>>

NoPhoto == PhotoRow(0, 0, <<>>, <<>>, 0, 0)
NoFile == [name |-> <<>>, type |-> <<>>, size |-> 0]

Task(kind, pc, uid, file, path, photo) ==
  [kind |-> kind, pc |-> pc, uid |-> uid, file |-> file, path |-> path, photo |-> photo,
   data |-> <<>>, res1 |-> "none", res2 |-> "none"]

\* uploads that may still start the fetchPhotos of line 224 and take a photos.id
ActiveUploads(ts) == Cardinality({i \in 1..Len(ts) : ts[i].kind = "upload" /\ ts[i].pc # "done"})

\* uploadFile calls that passed validation, and deletePhoto calls, so far
UploadsStarted(ts) == Cardinality({i \in 1..Len(ts) : ts[i].kind = "upload"})
DeletesStarted(ts) == Cardinality({i \in 1..Len(ts) : ts[i].kind = "delete"})

\* a request that has returned: its file and its data are released
Done(t) == [t EXCEPT !.pc = "done", !.file = NoFile, !.data = <<>>]

\* The rows in ascending order of created_at
OrderDesc_Ascending(rows) ==
  {s \in [1..Cardinality(rows) -> rows] :
     /\ \A i, j \in 1..Cardinality(rows) : s[i] = s[j] => i = j
     /\ \A i \in 1..(Cardinality(rows) - 1) : s[i].created_at <= s[i + 1].created_at}

\* .order("created_at", { ascending: false }): every order of the rows the sort allows
OrderDesc(rows) ==
  {s \in [1..Cardinality(rows) -> rows] :
     /\ \A i, j \in 1..Cardinality(rows) : s[i] = s[j] => i = j
     /\ \A i \in 1..(Cardinality(rows) - 1) : s[i].created_at >= s[i + 1].created_at}

\* checkAuth / onAuthStateChange: setUserId(session.user.id); the effect on
\* fetchPhotos then issues the select
Login(u) ==
  /\ userId = NoUser
  /\ UserExists(u)
  /\ userId' = UidText(u)
  /\ tasks' = Append(tasks, Task("fetch", "select", UidText(u), NoFile, <<>>, NoPhoto))
  /\ UNCHANGED <<photos, uploading, toast>>
  /\ UNCHANGED dbVars

\* fetchPhotos: the select executes at the data layer under the session's identity
FetchSelect(i) ==
  /\ tasks[i].kind = "fetch" /\ tasks[i].pc = "select"
  /\ \/ tasks' = [tasks EXCEPT ![i].pc = "response", ![i].res1 = "failed"]
     \/ \E s \in OrderDesc(PhotosSelect(ParseUid(tasks[i].uid))) :
          tasks' = [tasks EXCEPT ![i].pc = "response", ![i].res1 = "ok", ![i].data = s]
  /\ UNCHANGED <<userId, photos, uploading, toast>>
  /\ UNCHANGED dbVars

\* fetchPhotos after the await: toast on error, else setPhotos(data || [])
FetchResponse(i) ==
  /\ tasks[i].kind = "fetch" /\ tasks[i].pc = "response"
  /\ tasks' = [tasks EXCEPT ![i] = Done(tasks[i])]
  /\ IF tasks[i].res1 = "failed"
       THEN toast' = "Erro ao carregar fotos" /\ UNCHANGED photos
       ELSE photos' = tasks[i].data /\ UNCHANGED toast
  /\ UNCHANGED <<userId, uploading>>
  /\ UNCHANGED dbVars

\* uploadFile rejecting a file of exactly the size limit
uploadFile_LimitExcluded(st, file, stamp) ==
  IF userId = NoUser THEN st
  ELSE IF ~startsWith(file.type, ImagePrefix)
    THEN [st EXCEPT !.toast = "Apenas imagens sao permitidas"]
  ELSE IF file.size >= MaxFileSize
    THEN [st EXCEPT !.toast = "Arquivo muito grande (max 10MB)"]
  ELSE [st EXCEPT !.uploading = TRUE,
                  !.tasks = Append(st.tasks,
                              Task("upload", "upload", userId, file,
                                   FilePath(userId, stamp, file.name), NoPhoto))]

\* uploadFile up to its first await, on the Gallery state st = [tasks, uploading, toast]
uploadFile(st, file, stamp) ==
  IF userId = NoUser THEN st
  ELSE IF ~startsWith(file.type, ImagePrefix)
    THEN [st EXCEPT !.toast = "Apenas imagens sao permitidas"]
  ELSE IF file.size > MaxFileSize
    THEN [st EXCEPT !.toast = "Arquivo muito grande (max 10MB)"]
  ELSE [st EXCEPT !.uploading = TRUE,
                  !.tasks = Append(st.tasks,
                              Task("upload", "upload", userId, file,
                                   FilePath(userId, stamp, file.name), NoPhoto))]

\* Array.from(files).forEach(uploadFile): the calls run in turn, each to its first await
RECURSIVE forEachUpload(_, _, _)
forEachUpload(st, files, stamps) ==
  IF files = <<>> THEN st
  ELSE forEachUpload(uploadFile(st, Head(files), Head(stamps)), Tail(files), Tail(stamps))

\* the selections a user makes, and what Date.now() returns to each uploadFile call
Picks == UNION {[1..n -> Files] : n \in 1..MaxPick}
StampsFor(files) == {t \in [1..Len(files) -> Stamps] : \A i \in 1..(Len(files) - 1) : t[i] <= t[i + 1]}

\* handleFileChange / handleDrop
handleFileChange(files, stamps) ==
  LET st == forEachUpload([tasks |-> tasks, uploading |-> uploading, toast |-> toast],
                          files, stamps)
  IN /\ UploadsStarted(st.tasks) <= MaxUploads
     /\ nextId + ActiveUploads(st.tasks) <= MaxPhotoId + 1
     /\ tasks' = st.tasks
     /\ uploading' = st.uploading
     /\ toast' = st.toast
     /\ UNCHANGED <<userId, photos>>
     /\ UNCHANGED dbVars

\* uploadFile going on to the insert whatever the upload returned
UploadStorage_IgnoreError(i) ==
  /\ tasks[i].kind = "upload" /\ tasks[i].pc = "upload"
  /\ \E fail \in BOOLEAN :
       LET res == IF fail THEN "failed"
                  ELSE ObjectsInsertResult(ParseUid(tasks[i].uid), tasks[i].path)
       IN /\ storage_objects' = IF res = "ok" THEN storage_objects \cup {tasks[i].path}
                                ELSE storage_objects
          /\ tasks' = [tasks EXCEPT ![i].pc = "insert", ![i].res1 = res]
          /\ UNCHANGED <<uploading, toast>>
  /\ UNCHANGED <<auth_users, created, public_profiles, public_photos, now, nextId>>
  /\ UNCHANGED <<userId, photos>>

\* uploadFile after `await supabase.storage.from("photos").upload(filePath, file)`:
\* on uploadError the catch and finally run, else the insert is issued
UploadStorage(i) ==
  /\ tasks[i].kind = "upload" /\ tasks[i].pc = "upload"
  /\ \E fail \in BOOLEAN :
       LET res == IF fail THEN "failed"
                  ELSE ObjectsInsertResult(ParseUid(tasks[i].uid), tasks[i].path)
       IN
       IF res = "ok"
         THEN /\ storage_objects' = storage_objects \cup {tasks[i].path}
              /\ tasks' = [tasks EXCEPT ![i].pc = "insert", ![i].res1 = "ok"]
              /\ UNCHANGED <<uploading, toast>>
         ELSE /\ tasks' = [tasks EXCEPT ![i] = Done([tasks[i] EXCEPT !.res1 = res])]
              /\ toast' = "error.message"
              /\ uploading' = FALSE
              /\ UNCHANGED storage_objects
  /\ UNCHANGED <<auth_users, created, public_profiles, public_photos, now, nextId>>
  /\ UNCHANGED <<userId, photos>>

\* uploadFile after `await supabase.from("photos").insert({...})`: on dbError the
\* catch and finally run, else the toast, fetchPhotos() and the finally
UploadInsert(i) ==
  /\ tasks[i].kind = "upload" /\ tasks[i].pc = "insert"
  /\ \E fail \in BOOLEAN :
       LET row == PhotoRow(nextId, ParseUid(tasks[i].uid), tasks[i].file.name,
                           tasks[i].path, tasks[i].file.size, now)
           res == IF fail THEN "failed" ELSE PhotosInsertResult(ParseUid(tasks[i].uid), row)
       IN /\ IF res = "ok"
               THEN /\ public_photos' = public_photos \cup {row}
                    /\ nextId' = nextId + 1
                    /\ toast' = "Foto enviada com sucesso!"
                    /\ tasks' = Append([tasks EXCEPT ![i] = Done([tasks[i] EXCEPT !.res2 = "ok"])],
                                       Task("fetch", "select", tasks[i].uid, NoFile, <<>>, NoPhoto))
               ELSE /\ tasks' = [tasks EXCEPT ![i] = Done([tasks[i] EXCEPT !.res2 = res])]
                    /\ toast' = "error.message"
                    /\ UNCHANGED <<public_photos, nextId>>
  /\ uploading' = FALSE
  /\ UNCHANGED <<auth_users, created, public_profiles, storage_objects, now>>
  /\ UNCHANGED <<userId, photos>>

\* deletePhoto(photos[k]) up to its first await: the remove request is issued
deletePhoto(k) ==
  /\ k \in 1..Len(photos)
  /\ DeletesStarted(tasks) < MaxDeletes
  /\ tasks' = Append(tasks, Task("delete", "remove", userId, NoFile, <<>>, photos[k]))
  /\ UNCHANGED <<userId, photos, uploading, toast>>
  /\ UNCHANGED dbVars

\* deletePhoto after `await supabase.storage.from("photos").remove([photo.file_path])`
DeleteStorage(i) ==
  /\ tasks[i].kind = "delete" /\ tasks[i].pc = "remove"
  /\ \E fail \in BOOLEAN :
       IF fail
         THEN /\ tasks' = [tasks EXCEPT ![i] = Done([tasks[i] EXCEPT !.res1 = "failed"])]
              /\ toast' = "error.message"
              /\ UNCHANGED storage_objects
         ELSE /\ storage_objects' =
                   storage_objects \ ObjectsDeleted(ParseUid(tasks[i].uid), {tasks[i].photo.file_path})
              /\ tasks' = [tasks EXCEPT ![i].pc = "delete", ![i].res1 = "ok"]
              /\ UNCHANGED toast
  /\ UNCHANGED <<auth_users, created, public_profiles, public_photos, now, nextId>>
  /\ UNCHANGED <<userId, photos, uploading>>

\* deletePhoto after `await supabase.from("photos").delete().eq("id", photo.id)`
DeleteDb(i) ==
  /\ tasks[i].kind = "delete" /\ tasks[i].pc = "delete"
  /\ \E fail \in BOOLEAN :
       IF fail
         THEN /\ tasks' = [tasks EXCEPT ![i] = Done([tasks[i] EXCEPT !.res2 = "failed"])]
              /\ toast' = "error.message"
              /\ UNCHANGED <<public_photos, photos>>
         ELSE /\ public_photos' = public_photos \ PhotosDeleted(ParseUid(tasks[i].uid), tasks[i].photo.id)
              /\ tasks' = [tasks EXCEPT ![i] = Done([tasks[i] EXCEPT !.res2 = "ok"])]
              /\ toast' = "Foto excluida"
              /\ photos' = SelectSeq(photos, LAMBDA p : p.id # tasks[i].photo.id)
  /\ UNCHANGED <<auth_users, created, public_profiles, storage_objects, now, nextId>>
  /\ UNCHANGED <<userId, uploading>>

\* ------------------------------------------------------------ specification
\* The data layer as the migration leaves it: no user, no row, no object
Init ==
  /\ auth_users = <<>>
  /\ created = {}
  /\ public_profiles = <<>>
  /\ public_photos = {}
  /\ storage_objects = {}
  /\ now = 0
  /\ nextId = 1
  /\ userId = NoUser
  /\ photos = <<>>
  /\ uploading = FALSE
  /\ toast = ""
  /\ tasks = <<>>

\* Identity provisioning and callers that bypass the client
NextData ==
  \/ \E u \in UserIds, e \in Emails : CreateUser(u, e)
  \/ \E u \in UserIds : DeleteUser(u)
  \/ \E uid \in created, u \in UserIds, e \in Emails : ProfilesInsert(uid, u, e)
  \/ \E uid \in created, target \in UserIds, u \in UserIds, e \in Emails :
       ProfilesUpdate(uid, target, u, e)
  \/ \E uid \in created, target \in UserIds : ProfilesDelete(uid, target)
  \/ \E uid \in created, u \in UserIds, n \in DirectPaths : PhotosInsert(uid, u, n)
  \/ \E uid \in created, id \in 1..MaxPhotoId : PhotosDelete(uid, id)
  \/ \E uid \in created, id \in 1..MaxPhotoId, u \in UserIds, n \in DirectPaths :
       PhotosUpdate(uid, id, u, n)
  \/ \E uid \in created, n \in DirectNames : ObjectsUpload(uid, n)
  \/ \E uid \in created, n \in DirectNames : ObjectsRemove(uid, n)

SpecData == Init /\ [][NextData]_vars

\* Data-layer contents a Gallery is mounted on. SpecData reaches each of them:
\* both users signed up, and photos rows and objects written by direct calls
\* (a photo of each user, or one row of user 1 naming user 2's object)
SeedPhotos ==
  { {},
    {PhotoRow(1, 2, DirectFileName, <<"u2", "1.png">>, 0, 0),
     PhotoRow(2, 1, DirectFileName, <<"u1", "1.png">>, 0, 0)},
    {PhotoRow(1, 1, DirectFileName, <<"u2", "1.png">>, 0, 0)} }

InitGalleryOn(seeds) ==
  /\ auth_users = [u \in UserIds |-> IF u = 1 THEN "a@x" ELSE "b@x"]
  /\ created = UserIds
  /\ public_profiles = <<[user_id |-> 1, email |-> "a@x"], [user_id |-> 2, email |-> "b@x"]>>
  /\ public_photos \in seeds
  /\ storage_objects = {r.file_path : r \in public_photos}
  /\ now = 0
  /\ nextId = Cardinality(public_photos) + 1
  /\ userId = NoUser
  /\ photos = <<>>
  /\ uploading = FALSE
  /\ toast = ""
  /\ tasks = <<>>

InitGallery == InitGalleryOn(SeedPhotos)
InitUpload == InitGalleryOn({{}})

\* the browser session modelled is user 1's
SessionUsers == {1}

\* single-file selections that pass validation
SinglePicks == {f \in [1..1 -> Files] : startsWith(f[1].type, ImagePrefix) /\ f[1].size = MaxFileSize}

\* The Gallery of one browser session against the data layer
Next ==
  \/ Tick
  \/ \E u \in SessionUsers : Login(u)
  \/ \E i \in 1..Len(tasks) : FetchSelect(i)
  \/ \E i \in 1..Len(tasks) : FetchResponse(i)
  \/ \E files \in SinglePicks : \E stamps \in StampsFor(files) :
       UploadsStarted(tasks) < MaxGalleryUploads /\ handleFileChange(files, stamps)
  \/ \E i \in 1..Len(tasks) : UploadStorage(i)
  \/ \E i \in 1..Len(tasks) : UploadInsert(i)
  \/ \E k \in 1..Len(photos) : deletePhoto(k)
  \/ \E i \in 1..Len(tasks) : DeleteStorage(i)
  \/ \E i \in 1..Len(tasks) : DeleteDb(i)

Spec == InitGallery /\ [][Next]_vars

\* The upload path of the Gallery alone, over every selection
NextUpload ==
  \/ \E u \in SessionUsers : Login(u)
  \/ \E i \in 1..Len(tasks) : FetchSelect(i)
  \/ \E i \in 1..Len(tasks) : FetchResponse(i)
  \/ \E files \in Picks : \E stamps \in StampsFor(files) : handleFileChange(files, stamps)
  \/ \E i \in 1..Len(tasks) : UploadStorage(i)
  \/ \E i \in 1..Len(tasks) : UploadInsert(i)

SpecUpload == InitUpload /\ [][NextUpload]_vars

\* ------------------------------------------------------------------ claims
\* first segment of an object name
FirstSegment(name) == IF Len(name) >= 1 THEN name[1] ELSE NoUser

\* the rows of a sequence table owned by somebody other than uid
OthersProfiles(rows, uid) == SelectSeq(rows, LAMBDA r : r.user_id # uid)

\* C1: a caller under identity uid reads no profile or photos row of another
\* user, and no direct insert, update or delete under uid changes or removes one
C1_OwnRowsOnly ==
  /\ [](\A uid \in UserIds :
          /\ \A k \in 1..Len(ProfilesSelect(uid)) : ProfilesSelect(uid)[k].user_id = uid
          /\ \A r \in PhotosSelect(uid) : r.user_id = uid)
  /\ [][\A uid \in created :
          DirectCall(uid) =>
            /\ OthersProfiles(public_profiles', uid) = OthersProfiles(public_profiles, uid)
            /\ {r \in public_photos' : r.user_id # uid} = {r \in public_photos : r.user_id # uid}]_vars

\* C1 witness: user 1 inserted a photos row after user 2's row existed, user 1
\* rewrote its own profile, and user 2's profile and photos row are still there
C1_Witness ==
  /\ \E r1, r2 \in public_photos : r1.user_id = 1 /\ r2.user_id = 2 /\ r1.id > r2.id
  /\ \E k \in 1..Len(public_profiles) :
       public_profiles[k].user_id = 1 /\ public_profiles[k].email # auth_users[1]
  /\ Len(ProfilesOf(2)) = 1

\* C2: an object of the bucket is created or removed only by a storage call
\* made under the identity whose text is the first segment of its name, so a
\* call under uid leaves the objects under every other prefix as they were
C2_OwnPrefixOnly ==
  [][/\ \A n \in (storage_objects' \ storage_objects) \cup (storage_objects \ storage_objects') :
          \E uid \in created :
            /\ ObjectsUpload(uid, n) \/ ObjectsRemove(uid, n)
            /\ FirstSegment(n) = UidText(uid)
     /\ \A uid \in created, n \in DirectNames :
          ObjectsUpload(uid, n) \/ ObjectsRemove(uid, n) =>
            {m \in storage_objects' : FirstSegment(m) # UidText(uid)}
              = {m \in storage_objects : FirstSegment(m) # UidText(uid)}]_vars

\* C2 witness: both users hold an object under their own prefix
C2_Witness ==
  /\ <<"u1", "1.png">> \in storage_objects
  /\ <<"u2", "1.png">> \in storage_objects
  /\ created = UserIds

\* C3: creating a user leaves exactly one profile row with its identifier and
\* email; always, every existing user has exactly one profile row and every
\* profile row references an existing user
C3_OneProfilePerUser ==
  /\ [](/\ \A u \in DOMAIN auth_users : Len(ProfilesOf(u)) = 1
        /\ \A k \in 1..Len(public_profiles) : public_profiles[k].user_id \in DOMAIN auth_users)
  /\ [][\A u \in UserIds :
          u \notin DOMAIN auth_users /\ u \in DOMAIN auth_users' =>
            SelectSeq(public_profiles', LAMBDA r : r.user_id = u)
              = <<[user_id |-> u, email |-> auth_users'[u]]>>]_vars

\* C3 witness: one user was created with the second email and still has its
\* single profile row after the other user was deleted
C3_Witness ==
  \E u \in DOMAIN auth_users :
    /\ auth_users[u] = "b@x"
    /\ Len(ProfilesOf(u)) = 1
    /\ created \ DOMAIN auth_users # {}

\* C8: the file_path of every photos row starts with the text of its user_id
C8_PathPrefixed ==
  \A r \in public_photos : FirstSegment(r.file_path) = UidText(r.user_id)

\* the tasks of one kind
TasksOf(kind) == {i \in 1..Len(tasks) : tasks[i].kind = kind}

\* C4: deletePhoto issues the metadata delete only after the storage removal
\* succeeded; when both succeed neither the object nor the row exists; when the
\* removal fails the delete is never issued and both remain; when the delete
\* fails after the removal nothing is restored or removed, then or later
C4_DeleteProtocol ==
  /\ [](\A i \in TasksOf("delete") :
          (tasks[i].pc = "delete" \/ tasks[i].res2 # "none") => tasks[i].res1 = "ok")
  /\ [][\A i \in TasksOf("delete") :
          /\ (tasks[i].pc = "remove" /\ tasks'[i].pc = "delete") =>
               public_photos' = public_photos
          /\ (tasks[i].pc = "remove" /\ tasks'[i].pc = "done") =>
               /\ tasks'[i].res2 = "none"
               /\ UNCHANGED <<storage_objects, public_photos, photos>>
          /\ (tasks[i].pc = "delete" /\ tasks'[i].res2 = "ok") =>
               /\ tasks[i].photo.file_path \notin storage_objects'
               /\ \A r \in public_photos' : r.id # tasks[i].photo.id
          /\ (tasks[i].pc = "delete" /\ tasks'[i].res2 = "failed") =>
               /\ tasks'[i].pc = "done"
               /\ UNCHANGED <<storage_objects, public_photos, photos>>
          /\ tasks[i].pc = "done" => tasks'[i] = tasks[i]]_vars

\* C7: the select of fetchPhotos returns exactly the rows of the session's user,
\* each once, most recent first; a successful response replaces the cached list
\* by that result and a failed one leaves the list as it was
C7_ListOwnNewestFirst ==
  /\ [](\A i \in TasksOf("fetch") :
          \A k \in 1..(Len(tasks[i].data) - 1) :
            tasks[i].data[k].created_at >= tasks[i].data[k + 1].created_at)
  /\ [][\A i \in TasksOf("fetch") :
          /\ (tasks[i].pc = "select" /\ tasks'[i].res1 = "ok") =>
               /\ {tasks'[i].data[k] : k \in 1..Len(tasks'[i].data)}
                    = {r \in public_photos : r.user_id = ParseUid(tasks[i].uid)}
               /\ Len(tasks'[i].data)
                    = Cardinality({r \in public_photos : r.user_id = ParseUid(tasks[i].uid)})
          /\ (tasks[i].pc = "response" /\ tasks'[i].pc = "done") =>
               IF tasks[i].res1 = "ok" THEN photos' = tasks[i].data ELSE photos' = photos]_vars

\* C7 witness: the cached list holds two rows of different creation times
\* while the table also holds a row of another user
C7_Witness ==
  /\ Len(photos) = 2
  /\ photos[1].created_at > photos[2].created_at
  /\ \E r \in public_photos : r.user_id = 2
  /\ \E i \in TasksOf("fetch") : tasks[i].pc = "done" /\ tasks[i].res1 = "ok"

\* C10: once deletePhoto has completed for a photo (object removed, row
\* deleted, photo filtered out), the cached list does not contain the photo
C10_DeletedStaysOut ==
  \A i \in TasksOf("delete") :
    (/\ tasks[i].pc = "done" /\ tasks[i].res1 = "ok" /\ tasks[i].res2 = "ok"
     /\ tasks[i].photo.file_path \notin storage_objects
     /\ \A r \in public_photos : r.id # tasks[i].photo.id)
      => \A k \in 1..Len(photos) : photos[k].id # tasks[i].photo.id

\* C5: uploadFile issues the insert only after the upload succeeded and at most
\* once; a failed upload inserts no row; a failed insert adds no row for the
\* stored object, leaves the object where it is, and nothing is retried or removed
C5_InsertAfterUpload ==
  /\ [](\A i \in TasksOf("upload") :
          (tasks[i].pc = "insert" \/ tasks[i].res2 # "none") => tasks[i].res1 = "ok")
  /\ [][/\ Cardinality(public_photos' \ public_photos) <= 1
        /\ \A r \in public_photos' \ public_photos :
             \E i \in TasksOf("upload") :
               /\ tasks[i].pc = "insert" /\ tasks'[i].res2 = "ok"
               /\ r.file_path = tasks[i].path
               /\ r.user_id = ParseUid(tasks[i].uid)
        /\ \A i \in TasksOf("upload") :
             /\ (tasks[i].pc = "upload" /\ tasks'[i].pc = "done") =>
                  tasks'[i].res2 = "none" /\ public_photos' = public_photos
             /\ (tasks[i].pc = "insert" /\ tasks'[i].res2 \notin {"none", "ok"}) =>
                  /\ tasks'[i].pc = "done"
                  /\ Len(tasks') = Len(tasks)
                  /\ UNCHANGED <<public_photos, storage_objects>>
             /\ tasks[i].pc = "done" => tasks'[i] = tasks[i]]_vars

\* C5 witness: an upload whose insert failed has ended, its object is stored
\* and no row names it
C5_Witness ==
  \E i \in TasksOf("upload") :
    /\ tasks[i].pc = "done" /\ tasks[i].res1 = "ok" /\ tasks[i].res2 = "failed"
    /\ tasks[i].path \in storage_objects
    /\ \A r \in public_photos : r.file_path # tasks[i].path

\* a file the validation of uploadFile must reject
Rejected(file) == ~startsWith(file.type, <<"image", "/">>) \/ file.size > 10 * 1024 * 1024
Accepted(files) == SelectSeq(files, LAMBDA f : ~Rejected(f))

\* C6: a selection starts one storage upload per file that is an image of at
\* most 10 * 1024 * 1024 bytes, in order, and nothing else; a selection with no
\* such file leaves objects, rows, the uploading flag and the requests as they were
C6_Validation ==
  [][\A files \in Picks : \A stamps \in StampsFor(files) :
       handleFileChange(files, stamps) =>
         /\ UNCHANGED <<storage_objects, public_photos>>
         /\ Accepted(files) = <<>> => UNCHANGED <<uploading, tasks>>
         /\ userId # NoUser =>
              /\ Len(tasks') = Len(tasks) + Len(Accepted(files))
              /\ \A k \in 1..Len(Accepted(files)) :
                   /\ tasks'[Len(tasks) + k].kind = "upload"
                   /\ tasks'[Len(tasks) + k].pc = "upload"
                   /\ tasks'[Len(tasks) + k].file = Accepted(files)[k]]_vars

\* C6 witness: an oversized file was refused while the upload of a file of
\* exactly the limit is under way
C6_Witness ==
  /\ toast = "Arquivo muito grande (max 10MB)"
  /\ \E i \in TasksOf("upload") :
       tasks[i].pc = "upload" /\ tasks[i].file.size = 10 * 1024 * 1024

\* C9: two uploads of one user that meet no backend failure both succeed and
\* leave two stored objects and two photos rows
C9_TwoUploadsTwoRecords ==
  \A i, j \in TasksOf("upload") :
    (/\ i # j
     /\ tasks[i].uid = tasks[j].uid
     /\ tasks[i].pc = "done" /\ tasks[j].pc = "done"
     /\ "failed" \notin {tasks[i].res1, tasks[i].res2, tasks[j].res1, tasks[j].res2})
      => /\ tasks[i].res2 = "ok" /\ tasks[j].res2 = "ok"
         /\ tasks[i].path # tasks[j].path
         /\ {tasks[i].path, tasks[j].path} \subseteq storage_objects
         /\ \E ri, rj \in public_photos :
              ri.id # rj.id /\ ri.file_path = tasks[i].path /\ rj.file_path = tasks[j].path

====
